---------------------------- MODULE Spec2Model ----------------------------
(***************************************************************************)
(* auth-service/scripts: the two one-shot reorganisation scripts.          *)
(*                                                                         *)
(*   migrate_to_modules.py  (the Relocator): copies every MIGRATIONS       *)
(*       source to its destination, then rewrites the package declaration  *)
(*       of every .java file found under modules/ and common/.             *)
(*   update_imports.py      (the Import Rewriter): applies every           *)
(*       IMPORT_MAPPINGS substitution to every .java file.                 *)
(*                                                                         *)
(* Text is modelled as a sequence of lexical chunks: one chunk per         *)
(* punctuation character, blank or line break, and one per camel-case      *)
(* word of an identifier ("RoleType" is <<"Role","Type">>), so that one    *)
(* name being a prefix of another is visible to the pattern matcher the    *)
(* way it is to Python's re on characters.  Paths are chunk sequences      *)
(* relative to migrate_to_modules.BASE_PATH (.../com/demo/auth).           *)
(***************************************************************************)
EXTENDS Integers, Sequences, FiniteSets, TLC

(***************************************************************************)
(* Bounds of the model.                                                    *)
(***************************************************************************)
\* I/O faults (mkdir, copy, read, write) the environment injects in a behaviour.
MaxFaults == 1
\* How many times the operator runs the Import Rewriter after the Relocator.
MaxRuns == 2

(***************************************************************************)
(* The mapping tables, in dict (insertion) order.                          *)
(***************************************************************************)
MIGRATIONS ==
  <<
    [src  |-> <<"entity","/","User",".","java">>,
     dest |-> <<"modules","/","user","/","entity","/","User",".","java">>],
    [src  |-> <<"repository","/","User","Repository",".","java">>,
     dest |-> <<"modules","/","user","/","repository","/","User","Repository",".","java">>],
    [src  |-> <<"service","/","User","Service",".","java">>,
     dest |-> <<"modules","/","user","/","service","/","User","Service",".","java">>],
    [src  |-> <<"service","/","User","Details","Service","Impl",".","java">>,
     dest |-> <<"modules","/","user","/","service","/","User","Details","Service","Impl",".","java">>],
    [src  |-> <<"service","/","User","Registration","Service",".","java">>,
     dest |-> <<"modules","/","user","/","service","/","User","Registration","Service",".","java">>],
    [src  |-> <<"controller","/","User","Controller",".","java">>,
     dest |-> <<"modules","/","user","/","controller","/","User","Controller",".","java">>],
    [src  |-> <<"controller","/","Registration","Controller",".","java">>,
     dest |-> <<"modules","/","user","/","controller","/","Registration","Controller",".","java">>],
    [src  |-> <<"mapper","/","User","Mapper",".","java">>,
     dest |-> <<"modules","/","user","/","mapper","/","User","Mapper",".","java">>],
    [src  |-> <<"mapper","/","User","Dto","Mapper",".","java">>,
     dest |-> <<"modules","/","user","/","mapper","/","User","Dto","Mapper",".","java">>],
    [src  |-> <<"service","/","dto","/","User","Info","Dto",".","java">>,
     dest |-> <<"modules","/","user","/","dto","/","response","/","User","Info","Dto",".","java">>],
    [src  |-> <<"dto","/","User","DTO",".","java">>,
     dest |-> <<"modules","/","user","/","dto","/","response","/","User","DTO",".","java">>],
    [src  |-> <<"dto","/","Registration","Request","Dto",".","java">>,
     dest |-> <<"modules","/","user","/","dto","/","request","/","Registration","Request","Dto",".","java">>],
    [src  |-> <<"dto","/","Registration","Response","Dto",".","java">>,
     dest |-> <<"modules","/","user","/","dto","/","response","/","Registration","Response","Dto",".","java">>],
    [src  |-> <<"service","/","Authentication","Service",".","java">>,
     dest |-> <<"modules","/","authentication","/","service","/","Authentication","Service",".","java">>],
    [src  |-> <<"service","/","Jwt","Service",".","java">>,
     dest |-> <<"modules","/","authentication","/","service","/","Jwt","Service",".","java">>],
    [src  |-> <<"service","/","Stateless","Refresh","Token","Service",".","java">>,
     dest |-> <<"modules","/","authentication","/","service","/","Stateless","Refresh","Token","Service",".","java">>],
    [src  |-> <<"controller","/","Auth","Controller",".","java">>,
     dest |-> <<"modules","/","authentication","/","controller","/","Authentication","Controller",".","java">>],
    [src  |-> <<"dto","/","Login","Request","Dto",".","java">>,
     dest |-> <<"modules","/","authentication","/","dto","/","request","/","Login","Request","Dto",".","java">>],
    [src  |-> <<"dto","/","Authentication","Request","Dto",".","java">>,
     dest |-> <<"modules","/","authentication","/","dto","/","request","/","Authentication","Request","Dto",".","java">>],
    [src  |-> <<"dto","/","Authentication","Response","Dto",".","java">>,
     dest |-> <<"modules","/","authentication","/","dto","/","response","/","Authentication","Response","Dto",".","java">>],
    [src  |-> <<"service","/","dto","/","Refresh","Token","Request","Dto",".","java">>,
     dest |-> <<"modules","/","authentication","/","dto","/","request","/","Refresh","Token","Request","Dto",".","java">>],
    [src  |-> <<"security","/","custom","/","Custom","Jwt","Config",".","java">>,
     dest |-> <<"modules","/","authentication","/","security","/","jwt","/","custom","/","Custom","Jwt","Config",".","java">>],
    [src  |-> <<"security","/","custom","/","Custom","Jwt","Authentication","Provider",".","java">>,
     dest |-> <<"modules","/","authentication","/","security","/","jwt","/","custom","/","Custom","Jwt","Authentication","Provider",".","java">>],
    [src  |-> <<"security","/","custom","/","Custom","Jwt","Authentication","Token",".","java">>,
     dest |-> <<"modules","/","authentication","/","security","/","jwt","/","custom","/","Custom","Jwt","Authentication","Token",".","java">>],
    [src  |-> <<"security","/","custom","/","Custom","Jwt","Validation","Service",".","java">>,
     dest |-> <<"modules","/","authentication","/","security","/","jwt","/","custom","/","Custom","Jwt","Validation","Service",".","java">>],
    [src  |-> <<"security","/","keycloak","/","Keycloak","Jwt","Config",".","java">>,
     dest |-> <<"modules","/","authentication","/","security","/","jwt","/","keycloak","/","Keycloak","Jwt","Config",".","java">>],
    [src  |-> <<"security","/","keycloak","/","Keycloak","Jwt","Authentication","Provider",".","java">>,
     dest |-> <<"modules","/","authentication","/","security","/","jwt","/","keycloak","/","Keycloak","Jwt","Authentication","Provider",".","java">>],
    [src  |-> <<"security","/","keycloak","/","Keycloak","Jwt","Authentication","Token",".","java">>,
     dest |-> <<"modules","/","authentication","/","security","/","jwt","/","keycloak","/","Keycloak","Jwt","Authentication","Token",".","java">>],
    [src  |-> <<"security","/","keycloak","/","Keycloak","Jwt","Authentication","Converter",".","java">>,
     dest |-> <<"modules","/","authentication","/","security","/","jwt","/","keycloak","/","Keycloak","Jwt","Authentication","Converter",".","java">>],
    [src  |-> <<"security","/","keycloak","/","Keycloak","Token","Validation","Service",".","java">>,
     dest |-> <<"modules","/","authentication","/","security","/","jwt","/","keycloak","/","Keycloak","Token","Validation","Service",".","java">>],
    [src  |-> <<"security","/","keycloak","/","Keycloak","Role","Converter",".","java">>,
     dest |-> <<"modules","/","authentication","/","security","/","jwt","/","keycloak","/","Keycloak","Role","Converter",".","java">>],
    [src  |-> <<"security","/","keycloak","/","Keycloak","Properties",".","java">>,
     dest |-> <<"modules","/","authentication","/","security","/","jwt","/","keycloak","/","Keycloak","Properties",".","java">>],
    [src  |-> <<"security","/","keycloak","/","Keycloak","Security","Audit","Logger",".","java">>,
     dest |-> <<"modules","/","authentication","/","security","/","jwt","/","keycloak","/","Keycloak","Security","Audit","Logger",".","java">>],
    [src  |-> <<"security","/","common","/","Abstract","Jwt","Authentication","Provider",".","java">>,
     dest |-> <<"modules","/","authentication","/","security","/","jwt","/","common","/","Abstract","Jwt","Authentication","Provider",".","java">>],
    [src  |-> <<"security","/","common","/","Abstract","Jwt","Validation","Service",".","java">>,
     dest |-> <<"modules","/","authentication","/","security","/","jwt","/","common","/","Abstract","Jwt","Validation","Service",".","java">>],
    [src  |-> <<"security","/","common","/","Jwt","Authentication","Token",".","java">>,
     dest |-> <<"modules","/","authentication","/","security","/","jwt","/","common","/","Jwt","Authentication","Token",".","java">>],
    [src  |-> <<"security","/","common","/","Jwt","Token","Validation","Service",".","java">>,
     dest |-> <<"modules","/","authentication","/","security","/","jwt","/","common","/","Jwt","Token","Validation","Service",".","java">>],
    [src  |-> <<"security","/","common","/","Jwt","Validation","Result",".","java">>,
     dest |-> <<"modules","/","authentication","/","security","/","jwt","/","common","/","Jwt","Validation","Result",".","java">>],
    [src  |-> <<"security","/","common","/","Token","Type",".","java">>,
     dest |-> <<"modules","/","authentication","/","security","/","jwt","/","common","/","Token","Type",".","java">>],
    [src  |-> <<"security","/","filters","/","Jwt","Authentication","Filter",".","java">>,
     dest |-> <<"modules","/","authentication","/","security","/","filters","/","Jwt","Authentication","Filter",".","java">>],
    [src  |-> <<"security","/","filters","/","Jwt","Authentication","Filter","Routing",".","java">>,
     dest |-> <<"modules","/","authentication","/","security","/","filters","/","Jwt","Authentication","Filter","Routing",".","java">>],
    [src  |-> <<"entity","/","Role",".","java">>,
     dest |-> <<"modules","/","role","/","entity","/","Role",".","java">>],
    [src  |-> <<"entity","/","Role","Type",".","java">>,
     dest |-> <<"modules","/","role","/","entity","/","Role","Type",".","java">>],
    [src  |-> <<"repository","/","Role","Repository",".","java">>,
     dest |-> <<"modules","/","role","/","repository","/","Role","Repository",".","java">>],
    [src  |-> <<"service","/","Role","Service",".","java">>,
     dest |-> <<"modules","/","role","/","service","/","Role","Service",".","java">>],
    [src  |-> <<"service","/","mapper","/","Role","Mapper",".","java">>,
     dest |-> <<"modules","/","role","/","mapper","/","Role","Mapper",".","java">>],
    [src  |-> <<"entity","/","Permission",".","java">>,
     dest |-> <<"modules","/","permission","/","entity","/","Permission",".","java">>],
    [src  |-> <<"entity","/","Role","Permission",".","java">>,
     dest |-> <<"modules","/","permission","/","entity","/","Role","Permission",".","java">>],
    [src  |-> <<"config","/","Providers","Security","Configuration",".","java">>,
     dest |-> <<"common","/","config","/","Providers","Security","Configuration",".","java">>],
    [src  |-> <<"config","/","Auth","Cache","Configuration",".","java">>,
     dest |-> <<"common","/","config","/","Auth","Cache","Configuration",".","java">>],
    [src  |-> <<"config","/","Fallback","Jwt","Config",".","java">>,
     dest |-> <<"common","/","config","/","Fallback","Jwt","Config",".","java">>],
    [src  |-> <<"config","/","Retry","Configuration",".","java">>,
     dest |-> <<"common","/","config","/","Retry","Configuration",".","java">>],
    [src  |-> <<"security","/","Security","Configuration","Factory",".","java">>,
     dest |-> <<"common","/","security","/","Security","Configuration","Factory",".","java">>],
    [src  |-> <<"security","/","Security","Properties",".","java">>,
     dest |-> <<"common","/","security","/","Security","Properties",".","java">>],
    [src  |-> <<"security","/","Password","Encoder","Config",".","java">>,
     dest |-> <<"common","/","security","/","Password","Encoder","Config",".","java">>],
    [src  |-> <<"security","/","Rate","Limiting","Config",".","java">>,
     dest |-> <<"common","/","security","/","Rate","Limiting","Config",".","java">>],
    [src  |-> <<"security","/","Security","Configuration",".","java">>,
     dest |-> <<"common","/","security","/","Security","Configuration",".","java">>],
    [src  |-> <<"security","/","Custom","Bearer","Token","Authentication","Entry","Point",".","java">>,
     dest |-> <<"common","/","security","/","Custom","Bearer","Token","Authentication","Entry","Point",".","java">>],
    [src  |-> <<"service","/","Auth","Cache","Service",".","java">>,
     dest |-> <<"common","/","cache","/","Auth","Cache","Service",".","java">>],
    [src  |-> <<"service","/","exception","/","Authentication","Exception",".","java">>,
     dest |-> <<"common","/","exception","/","Authentication","Exception",".","java">>],
    [src  |-> <<"service","/","exception","/","Resource","Not","Found","Exception",".","java">>,
     dest |-> <<"common","/","exception","/","Resource","Not","Found","Exception",".","java">>],
    [src  |-> <<"service","/","Auth","Database","Service",".","java">>,
     dest |-> <<"common","/","config","/","Auth","Database","Service",".","java">>],
    [src  |-> <<"service","/","Auth","Security","Service",".","java">>,
     dest |-> <<"common","/","config","/","Auth","Security","Service",".","java">>],
    [src  |-> <<"controller","/","Cache","Controller",".","java">>,
     dest |-> <<"common","/","config","/","Cache","Controller",".","java">>]
  >>

IMPORT_MAPPINGS ==
  <<
    [old |-> <<"com",".","demo",".","auth",".","entity",".","User">>,
     new |-> <<"com",".","demo",".","auth",".","modules",".","user",".","entity",".","User">>],
    [old |-> <<"com",".","demo",".","auth",".","entity",".","Role">>,
     new |-> <<"com",".","demo",".","auth",".","modules",".","role",".","entity",".","Role">>],
    [old |-> <<"com",".","demo",".","auth",".","entity",".","Role","Type">>,
     new |-> <<"com",".","demo",".","auth",".","modules",".","role",".","entity",".","Role","Type">>],
    [old |-> <<"com",".","demo",".","auth",".","entity",".","Permission">>,
     new |-> <<"com",".","demo",".","auth",".","modules",".","permission",".","entity",".","Permission">>],
    [old |-> <<"com",".","demo",".","auth",".","entity",".","Role","Permission">>,
     new |-> <<"com",".","demo",".","auth",".","modules",".","permission",".","entity",".","Role","Permission">>],
    [old |-> <<"com",".","demo",".","auth",".","repository",".","User","Repository">>,
     new |-> <<"com",".","demo",".","auth",".","modules",".","user",".","repository",".","User","Repository">>],
    [old |-> <<"com",".","demo",".","auth",".","repository",".","Role","Repository">>,
     new |-> <<"com",".","demo",".","auth",".","modules",".","role",".","repository",".","Role","Repository">>],
    [old |-> <<"com",".","demo",".","auth",".","service",".","User","Service">>,
     new |-> <<"com",".","demo",".","auth",".","modules",".","user",".","service",".","User","Service">>],
    [old |-> <<"com",".","demo",".","auth",".","service",".","User","Details","Service","Impl">>,
     new |-> <<"com",".","demo",".","auth",".","modules",".","user",".","service",".","User","Details","Service","Impl">>],
    [old |-> <<"com",".","demo",".","auth",".","service",".","User","Registration","Service">>,
     new |-> <<"com",".","demo",".","auth",".","modules",".","user",".","service",".","User","Registration","Service">>],
    [old |-> <<"com",".","demo",".","auth",".","service",".","Authentication","Service">>,
     new |-> <<"com",".","demo",".","auth",".","modules",".","authentication",".","service",".","Authentication","Service">>],
    [old |-> <<"com",".","demo",".","auth",".","service",".","Jwt","Service">>,
     new |-> <<"com",".","demo",".","auth",".","modules",".","authentication",".","service",".","Jwt","Service">>],
    [old |-> <<"com",".","demo",".","auth",".","service",".","Stateless","Refresh","Token","Service">>,
     new |-> <<"com",".","demo",".","auth",".","modules",".","authentication",".","service",".","Stateless","Refresh","Token","Service">>],
    [old |-> <<"com",".","demo",".","auth",".","service",".","Role","Service">>,
     new |-> <<"com",".","demo",".","auth",".","modules",".","role",".","service",".","Role","Service">>],
    [old |-> <<"com",".","demo",".","auth",".","controller",".","User","Controller">>,
     new |-> <<"com",".","demo",".","auth",".","modules",".","user",".","controller",".","User","Controller">>],
    [old |-> <<"com",".","demo",".","auth",".","controller",".","Registration","Controller">>,
     new |-> <<"com",".","demo",".","auth",".","modules",".","user",".","controller",".","Registration","Controller">>],
    [old |-> <<"com",".","demo",".","auth",".","controller",".","Auth","Controller">>,
     new |-> <<"com",".","demo",".","auth",".","modules",".","authentication",".","controller",".","Authentication","Controller">>],
    [old |-> <<"com",".","demo",".","auth",".","service",".","dto",".","User","Info","Dto">>,
     new |-> <<"com",".","demo",".","auth",".","modules",".","user",".","dto",".","response",".","User","Info","Dto">>],
    [old |-> <<"com",".","demo",".","auth",".","dto",".","User","DTO">>,
     new |-> <<"com",".","demo",".","auth",".","modules",".","user",".","dto",".","response",".","User","DTO">>],
    [old |-> <<"com",".","demo",".","auth",".","dto",".","Registration","Request","Dto">>,
     new |-> <<"com",".","demo",".","auth",".","modules",".","user",".","dto",".","request",".","Registration","Request","Dto">>],
    [old |-> <<"com",".","demo",".","auth",".","dto",".","Registration","Response","Dto">>,
     new |-> <<"com",".","demo",".","auth",".","modules",".","user",".","dto",".","response",".","Registration","Response","Dto">>],
    [old |-> <<"com",".","demo",".","auth",".","service",".","dto",".","Refresh","Token","Request","Dto">>,
     new |-> <<"com",".","demo",".","auth",".","modules",".","authentication",".","dto",".","request",".","Refresh","Token","Request","Dto">>],
    [old |-> <<"com",".","demo",".","auth",".","dto",".","Login","Request","Dto">>,
     new |-> <<"com",".","demo",".","auth",".","modules",".","authentication",".","dto",".","request",".","Login","Request","Dto">>],
    [old |-> <<"com",".","demo",".","auth",".","dto",".","Authentication","Request","Dto">>,
     new |-> <<"com",".","demo",".","auth",".","modules",".","authentication",".","dto",".","request",".","Authentication","Request","Dto">>],
    [old |-> <<"com",".","demo",".","auth",".","dto",".","Authentication","Response","Dto">>,
     new |-> <<"com",".","demo",".","auth",".","modules",".","authentication",".","dto",".","response",".","Authentication","Response","Dto">>],
    [old |-> <<"com",".","demo",".","auth",".","mapper",".","User","Mapper">>,
     new |-> <<"com",".","demo",".","auth",".","modules",".","user",".","mapper",".","User","Mapper">>],
    [old |-> <<"com",".","demo",".","auth",".","mapper",".","User","Dto","Mapper">>,
     new |-> <<"com",".","demo",".","auth",".","modules",".","user",".","mapper",".","User","Dto","Mapper">>],
    [old |-> <<"com",".","demo",".","auth",".","security",".","custom",".","Custom","Jwt","Config">>,
     new |-> <<"com",".","demo",".","auth",".","modules",".","authentication",".","security",".","jwt",".","custom",".","Custom","Jwt","Config">>],
    [old |-> <<"com",".","demo",".","auth",".","security",".","custom",".","Custom","Jwt","Authentication","Provider">>,
     new |-> <<"com",".","demo",".","auth",".","modules",".","authentication",".","security",".","jwt",".","custom",".","Custom","Jwt","Authentication","Provider">>],
    [old |-> <<"com",".","demo",".","auth",".","security",".","custom",".","Custom","Jwt","Authentication","Token">>,
     new |-> <<"com",".","demo",".","auth",".","modules",".","authentication",".","security",".","jwt",".","custom",".","Custom","Jwt","Authentication","Token">>],
    [old |-> <<"com",".","demo",".","auth",".","security",".","custom",".","Custom","Jwt","Validation","Service">>,
     new |-> <<"com",".","demo",".","auth",".","modules",".","authentication",".","security",".","jwt",".","custom",".","Custom","Jwt","Validation","Service">>],
    [old |-> <<"com",".","demo",".","auth",".","security",".","keycloak",".","Keycloak","Jwt","Config">>,
     new |-> <<"com",".","demo",".","auth",".","modules",".","authentication",".","security",".","jwt",".","keycloak",".","Keycloak","Jwt","Config">>],
    [old |-> <<"com",".","demo",".","auth",".","security",".","keycloak",".","Keycloak","Jwt","Authentication","Provider">>,
     new |-> <<"com",".","demo",".","auth",".","modules",".","authentication",".","security",".","jwt",".","keycloak",".","Keycloak","Jwt","Authentication","Provider">>],
    [old |-> <<"com",".","demo",".","auth",".","security",".","keycloak",".","Keycloak","Jwt","Authentication","Token">>,
     new |-> <<"com",".","demo",".","auth",".","modules",".","authentication",".","security",".","jwt",".","keycloak",".","Keycloak","Jwt","Authentication","Token">>],
    [old |-> <<"com",".","demo",".","auth",".","security",".","keycloak",".","Keycloak","Jwt","Authentication","Converter">>,
     new |-> <<"com",".","demo",".","auth",".","modules",".","authentication",".","security",".","jwt",".","keycloak",".","Keycloak","Jwt","Authentication","Converter">>],
    [old |-> <<"com",".","demo",".","auth",".","security",".","keycloak",".","Keycloak","Token","Validation","Service">>,
     new |-> <<"com",".","demo",".","auth",".","modules",".","authentication",".","security",".","jwt",".","keycloak",".","Keycloak","Token","Validation","Service">>],
    [old |-> <<"com",".","demo",".","auth",".","security",".","keycloak",".","Keycloak","Role","Converter">>,
     new |-> <<"com",".","demo",".","auth",".","modules",".","authentication",".","security",".","jwt",".","keycloak",".","Keycloak","Role","Converter">>],
    [old |-> <<"com",".","demo",".","auth",".","security",".","keycloak",".","Keycloak","Properties">>,
     new |-> <<"com",".","demo",".","auth",".","modules",".","authentication",".","security",".","jwt",".","keycloak",".","Keycloak","Properties">>],
    [old |-> <<"com",".","demo",".","auth",".","security",".","keycloak",".","Keycloak","Security","Audit","Logger">>,
     new |-> <<"com",".","demo",".","auth",".","modules",".","authentication",".","security",".","jwt",".","keycloak",".","Keycloak","Security","Audit","Logger">>],
    [old |-> <<"com",".","demo",".","auth",".","security",".","common",".","Abstract","Jwt","Authentication","Provider">>,
     new |-> <<"com",".","demo",".","auth",".","modules",".","authentication",".","security",".","jwt",".","common",".","Abstract","Jwt","Authentication","Provider">>],
    [old |-> <<"com",".","demo",".","auth",".","security",".","common",".","Abstract","Jwt","Validation","Service">>,
     new |-> <<"com",".","demo",".","auth",".","modules",".","authentication",".","security",".","jwt",".","common",".","Abstract","Jwt","Validation","Service">>],
    [old |-> <<"com",".","demo",".","auth",".","security",".","common",".","Jwt","Authentication","Token">>,
     new |-> <<"com",".","demo",".","auth",".","modules",".","authentication",".","security",".","jwt",".","common",".","Jwt","Authentication","Token">>],
    [old |-> <<"com",".","demo",".","auth",".","security",".","common",".","Jwt","Token","Validation","Service">>,
     new |-> <<"com",".","demo",".","auth",".","modules",".","authentication",".","security",".","jwt",".","common",".","Jwt","Token","Validation","Service">>],
    [old |-> <<"com",".","demo",".","auth",".","security",".","common",".","Jwt","Validation","Result">>,
     new |-> <<"com",".","demo",".","auth",".","modules",".","authentication",".","security",".","jwt",".","common",".","Jwt","Validation","Result">>],
    [old |-> <<"com",".","demo",".","auth",".","security",".","common",".","Token","Type">>,
     new |-> <<"com",".","demo",".","auth",".","modules",".","authentication",".","security",".","jwt",".","common",".","Token","Type">>],
    [old |-> <<"com",".","demo",".","auth",".","security",".","filters",".","Jwt","Authentication","Filter">>,
     new |-> <<"com",".","demo",".","auth",".","modules",".","authentication",".","security",".","filters",".","Jwt","Authentication","Filter">>],
    [old |-> <<"com",".","demo",".","auth",".","security",".","filters",".","Jwt","Authentication","Filter","Routing">>,
     new |-> <<"com",".","demo",".","auth",".","modules",".","authentication",".","security",".","filters",".","Jwt","Authentication","Filter","Routing">>],
    [old |-> <<"com",".","demo",".","auth",".","config",".","Providers","Security","Configuration">>,
     new |-> <<"com",".","demo",".","auth",".","common",".","config",".","Providers","Security","Configuration">>],
    [old |-> <<"com",".","demo",".","auth",".","config",".","Auth","Cache","Configuration">>,
     new |-> <<"com",".","demo",".","auth",".","common",".","config",".","Auth","Cache","Configuration">>],
    [old |-> <<"com",".","demo",".","auth",".","config",".","Fallback","Jwt","Config">>,
     new |-> <<"com",".","demo",".","auth",".","common",".","config",".","Fallback","Jwt","Config">>],
    [old |-> <<"com",".","demo",".","auth",".","config",".","Retry","Configuration">>,
     new |-> <<"com",".","demo",".","auth",".","common",".","config",".","Retry","Configuration">>],
    [old |-> <<"com",".","demo",".","auth",".","service",".","Auth","Database","Service">>,
     new |-> <<"com",".","demo",".","auth",".","common",".","config",".","Auth","Database","Service">>],
    [old |-> <<"com",".","demo",".","auth",".","service",".","Auth","Security","Service">>,
     new |-> <<"com",".","demo",".","auth",".","common",".","config",".","Auth","Security","Service">>],
    [old |-> <<"com",".","demo",".","auth",".","controller",".","Cache","Controller">>,
     new |-> <<"com",".","demo",".","auth",".","common",".","config",".","Cache","Controller">>],
    [old |-> <<"com",".","demo",".","auth",".","security",".","Security","Configuration","Factory">>,
     new |-> <<"com",".","demo",".","auth",".","common",".","security",".","Security","Configuration","Factory">>],
    [old |-> <<"com",".","demo",".","auth",".","security",".","Security","Properties">>,
     new |-> <<"com",".","demo",".","auth",".","common",".","security",".","Security","Properties">>],
    [old |-> <<"com",".","demo",".","auth",".","security",".","Password","Encoder","Config">>,
     new |-> <<"com",".","demo",".","auth",".","common",".","security",".","Password","Encoder","Config">>],
    [old |-> <<"com",".","demo",".","auth",".","security",".","Rate","Limiting","Config">>,
     new |-> <<"com",".","demo",".","auth",".","common",".","security",".","Rate","Limiting","Config">>],
    [old |-> <<"com",".","demo",".","auth",".","security",".","Security","Configuration">>,
     new |-> <<"com",".","demo",".","auth",".","common",".","security",".","Security","Configuration">>],
    [old |-> <<"com",".","demo",".","auth",".","security",".","Custom","Bearer","Token","Authentication","Entry","Point">>,
     new |-> <<"com",".","demo",".","auth",".","common",".","security",".","Custom","Bearer","Token","Authentication","Entry","Point">>],
    [old |-> <<"com",".","demo",".","auth",".","service",".","Auth","Cache","Service">>,
     new |-> <<"com",".","demo",".","auth",".","common",".","cache",".","Auth","Cache","Service">>]
  >>

\* BASE_PATH ends in com/demo/auth: the namespace prefix both scripts hard-code.
BasePrefix == <<"com", ".", "demo", ".", "auth", ".">>

(***************************************************************************)
(* Python's re, restricted to the two pattern shapes the scripts use:      *)
(*     [^] kw \s+ lit ;              (bol, any = FALSE)                    *)
(*     [^] kw \s+ lit [^;]+ ;        (any = TRUE)                          *)
(* bol is the ^ of re.MULTILINE.                                           *)
(***************************************************************************)
IsWs(t) == t \in {" ", "\n", "\t"}

\* Last index of the maximal whitespace run that starts at i (\s+ is greedy and
\* what follows it in both patterns is not whitespace).
WsRunEnd(text, i) ==
  CHOOSE j \in i..Len(text) :
     /\ \A k \in i..j : IsWs(text[k])
     /\ (j = Len(text) \/ ~IsWs(text[j + 1]))

\* Index of the first ";" at or after i, 0 when there is none.
FirstSemi(text, i) ==
  IF \E j \in i..Len(text) : text[j] = ";"
  THEN CHOOSE j \in i..Len(text) :
          text[j] = ";" /\ \A k \in i..(j - 1) : text[k] # ";"
  ELSE 0

\* Index of the last chunk of the match of p that starts at i, 0 when p does
\* not match at i.
MatchEnd(text, i, p) ==
  IF ~(/\ i + 1 <= Len(text)
       /\ text[i] = p.kw
       /\ (p.bol => (i = 1 \/ text[i - 1] = "\n"))
       /\ IsWs(text[i + 1]))
  THEN 0
  ELSE LET litStart == WsRunEnd(text, i + 1) + 1
           litEnd   == litStart + Len(p.lit) - 1
       IN  IF \/ litEnd > Len(text)
              \/ \E k \in 1..Len(p.lit) : text[litStart + k - 1] # p.lit[k]
           THEN 0
           ELSE IF p.any
                THEN LET semi == FirstSemi(text, litEnd + 1)
                     IN  IF semi > litEnd + 1 THEN semi ELSE 0
                ELSE IF litEnd + 1 <= Len(text) /\ text[litEnd + 1] = ";"
                     THEN litEnd + 1
                     ELSE 0

\* Start of the leftmost match of p at or after i, 0 when there is none.
NextMatch(text, i, p) ==
  LET starts == {j \in i..Len(text) : text[j] = p.kw /\ MatchEnd(text, j, p) > 0}
  IN  IF starts = {} THEN 0
      ELSE CHOOSE j \in starts : \A k \in starts : j <= k

RECURSIVE ReSubFrom(_, _, _, _, _)
\* re.sub from position i on: the non-overlapping matches, left to right; all
\* of them when count = 0 (Python's default), at most count otherwise.
ReSubFrom(p, repl, text, i, count) ==
  LET s == NextMatch(text, i, p)
  IN  IF s = 0 THEN SubSeq(text, i, Len(text))
      ELSE LET e == MatchEnd(text, s, p)
           IN  SubSeq(text, i, s - 1) \o repl \o
               (IF count = 1
                THEN SubSeq(text, e + 1, Len(text))
                ELSE ReSubFrom(p, repl, text, e + 1,
                               IF count = 0 THEN 0 ELSE count - 1))

\* re.sub(pattern, repl, text) with the default count=0: all matches.
ReSub(p, repl, text) == ReSubFrom(p, repl, text, 1, 0)

(***************************************************************************)
(* migrate_to_modules.py                                                   *)
(***************************************************************************)
\* r'^package\s+com\.demo\.auth\.[^;]+;' with flags=re.MULTILINE
PackagePattern ==
  [bol |-> TRUE, kw |-> "package", lit |-> BasePrefix, any |-> TRUE]

\* Index of the last "/" of a path, 0 when it has none.
LastSlash(path) ==
  IF \E j \in 1..Len(path) : path[j] = "/"
  THEN CHOOSE j \in 1..Len(path) :
          path[j] = "/" /\ \A k \in (j + 1)..Len(path) : path[k] # "/"
  ELSE 0

\* A slip: ".".join(rel_path.parts), the file name taken for a directory.
JoinAllParts(path) ==
  [k \in 1..Len(path) |-> IF path[k] = "/" THEN "." ELSE path[k]]

\* ".".join(rel_path.parent.parts): the directory part, "/" turned into ".".
JoinParts(path) ==
  [k \in 1..(IF LastSlash(path) = 0 THEN 0 ELSE LastSlash(path) - 1) |->
      IF path[k] = "/" THEN "." ELSE path[k]]

\* new_package = "com.demo.auth." + ".".join(package_parts)
NewPackage(path) == BasePrefix \o JoinParts(path)

\* f'package {new_package};'
PackageStatement(new_package) == <<"package", " ">> \o new_package \o <<";">>

\* The re.sub of update_package_declaration.
RewritePackage(content, path) ==
  ReSub(PackagePattern, PackageStatement(NewPackage(path)), content)

(***************************************************************************)
(* update_imports.py                                                       *)
(***************************************************************************)
\* s.rsplit('.', 1)[0]
LastDot(name) ==
  IF \E j \in 1..Len(name) : name[j] = "."
  THEN CHOOSE j \in 1..Len(name) :
          name[j] = "." /\ \A k \in (j + 1)..Len(name) : name[k] # "."
  ELSE 0

RSplitPackage(name) ==
  IF LastDot(name) = 0 THEN name ELSE SubSeq(name, 1, LastDot(name) - 1)

\* f"import\\s+{re.escape(old_import)};"
ExactPattern(old_import) ==
  [bol |-> FALSE, kw |-> "import", lit |-> old_import, any |-> FALSE]

\* f"import\\s+{re.escape(old_package)}\\.\\*;"
WildcardPattern(old_package) ==
  [bol |-> FALSE, kw |-> "import", lit |-> old_package \o <<".", "*">>,
   any |-> FALSE]

ImportStatement(name) == <<"import", " ">> \o name \o <<";">>

WildcardStatement(package) == <<"import", " ">> \o package \o <<".", "*", ";">>

\* What the body of the loop over IMPORT_MAPPINGS.items() builds from an entry:
\* old_pattern, new_statement, old_wildcard, new_wildcard.
ImportRule(m) ==
  [old_pattern   |-> ExactPattern(m.old),
   new_statement |-> ImportStatement(m.new),
   old_wildcard  |-> WildcardPattern(RSplitPackage(m.old)),
   new_wildcard  |-> WildcardStatement(RSplitPackage(m.new))]

RECURSIVE RulesUpTo(_, _)
RulesUpTo(table, k) ==
  IF k = 0 THEN <<>> ELSE Append(RulesUpTo(table, k - 1), ImportRule(table[k]))

\* The rules of all entries, in table order.
ImportRules == RulesUpTo(IMPORT_MAPPINGS, Len(IMPORT_MAPPINGS))

\* One iteration of the loop: the two re.sub calls.
ApplyMapping(content, r) ==
  ReSub(r.old_wildcard, r.new_wildcard,
        ReSub(r.old_pattern, r.new_statement, content))

\* Positions of the chunk kw: where a pattern that starts with kw can match.
KwStarts(text, kw) == {j \in 1..Len(text) : text[j] = kw}

\* Whether either pattern of rule r matches at one of the positions.
Hit(content, r, starts) ==
  \E j \in starts :
     \/ MatchEnd(content, j, r.old_pattern) > 0
     \/ MatchEnd(content, j, r.old_wildcard) > 0

RECURSIVE ApplyMappings(_, _, _, _)
\* The loop applied to rules k..Len(rules), in table order.  starts is
\* KwStarts(content, "import"); a rule neither of whose patterns matches
\* leaves the text as it is.
ApplyMappings(content, rules, k, starts) ==
  IF k > Len(rules) THEN content
  ELSE IF ~Hit(content, rules[k], starts)
       THEN ApplyMappings(content, rules, k + 1, starts)
       ELSE LET next == ApplyMapping(content, rules[k])
            IN  ApplyMappings(next, rules, k + 1, KwStarts(next, "import"))

\* The text update_imports_in_file computes from what it read.
RewriteImports(content) ==
  ApplyMappings(content, ImportRules, 1, KwStarts(content, "import"))

\* A slip: the comparison dropped, every file written back.
AlwaysChanged(content, original_content) == TRUE

\* content != original_content
Changed(content, original_content) == content # original_content

(***************************************************************************)
(* The file tree.  A tree is a function from the paths of its files to     *)
(* their text.                                                             *)
(***************************************************************************)
Put(tree, path, content) ==
  [p \in DOMAIN tree \cup {path} |-> IF p = path THEN content ELSE tree[p]]

IsJava(path) ==
  Len(path) >= 3 /\ SubSeq(path, Len(path) - 1, Len(path)) = <<".", "java">>

Under(path, root) == Len(path) >= 3 /\ path[1] = root /\ path[2] = "/"

\* BASE_PATH.glob("modules/**/*.java") + BASE_PATH.glob("common/**/*.java")
GlobModules(tree) ==
  {p \in DOMAIN tree : IsJava(p) /\ (Under(p, "modules") \/ Under(p, "common"))}

\* BASE_PATH.glob("**/*.java") of update_imports.py
GlobAll(tree) == {p \in DOMAIN tree : IsJava(p)}

(***************************************************************************)
(* Inputs: the source files present when the Relocator starts.             *)
(***************************************************************************)
NL == <<"\n">>
LPackage == <<"package", " ", "com", ".", "demo", ".", "auth", ".", "entity", ";">>
LPackageOpen == <<"package", " ", "com", ".", "demo", ".", "auth", ".", "entity">>
LImportRole == ImportStatement(BasePrefix \o <<"entity", ".", "Role">>)
LImportRoleType == ImportStatement(BasePrefix \o <<"entity", ".", "Role", "Type">>)
LImportWildcard == WildcardStatement(BasePrefix \o <<"entity">>)
LImportRoleMapper ==
  ImportStatement(BasePrefix \o <<"service", ".", "mapper", ".", "Role", "Mapper">>)

\* Texts the file entity/Role.java may hold.
SampleTexts ==
  { LPackage \o NL \o LPackage \o NL,
    LPackage \o NL \o LImportRole \o NL,
    LPackage \o NL \o LImportRoleType \o NL,
    LPackage \o NL \o LImportWildcard \o NL,
    LPackage \o NL \o LImportRoleMapper \o NL,
    LPackageOpen \o NL \o LImportRole \o NL,
    <<"import", " ", " ">> \o BasePrefix \o <<"entity", ".", "Role", ";">> \o NL }

\* The two MIGRATIONS entries whose sources are present.
RoleEntry ==
  CHOOSE k \in 1..Len(MIGRATIONS) :
     MIGRATIONS[k].src = <<"entity", "/", "Role", ".", "java">>
RoleMapperEntry ==
  CHOOSE k \in 1..Len(MIGRATIONS) :
     MIGRATIONS[k].src = <<"service", "/", "mapper", "/", "Role", "Mapper", ".", "java">>

\* What service/mapper/RoleMapper.java holds.
RoleMapperText ==
  <<"package", " ">> \o BasePrefix \o <<"service", ".", "mapper", ";">> \o NL
    \o LImportRole \o NL

InitialTrees ==
  { [p \in {MIGRATIONS[RoleMapperEntry].src} |-> RoleMapperText] }
  \cup
  { Put([p \in {MIGRATIONS[RoleMapperEntry].src} |-> RoleMapperText],
        MIGRATIONS[RoleEntry].src, t) : t \in SampleTexts }

(***************************************************************************)
(* State.                                                                  *)
(***************************************************************************)
VARIABLES
  fs,              \* the file tree under BASE_PATH
  pc,              \* "move", "update", "migrated", "imports", "summary", "crashed"
  idx,             \* position of main's loop over MIGRATIONS.items()
  moved_count,     \* migrate_to_modules.main
  failed_count,    \* migrate_to_modules.main
  updated_count,   \* main's updated_count (of the script that is running)
  java_files,      \* the files of java_files the running loop has not reached yet
  run,             \* runs of update_imports.py started so far
  faults,          \* I/O faults injected so far
  \* history, read only by the properties
  orig,            \* the tree when the Relocator started
  copied,          \* MIGRATIONS positions whose copy succeeded
  pkg_pre,         \* path -> text update_package_declaration read, where it succeeded
  pkg_seen,        \* paths update_package_declaration was called on
  run_pre,         \* the tree when the current Import Rewriter run started
  scanned,         \* java_files as the current run enumerated it
  visits,          \* path -> calls of update_imports_in_file in the current run
  written,         \* paths the current run wrote (write_text returned)
  io_err,          \* paths whose read or write failed in the current run
  io_err_ever      \* paths whose read or write failed in some Import Rewriter run

vars == <<fs, pc, idx, moved_count, failed_count, updated_count, java_files, run,
          faults, orig, copied, pkg_pre, pkg_seen, run_pre, scanned, visits,
          written, io_err, io_err_ever>>

relocVars == <<idx, moved_count, failed_count, copied, pkg_pre, pkg_seen, orig>>
importVars == <<run, run_pre, scanned, visits, written, io_err, io_err_ever>>

EmptyTree == [p \in {} |-> <<>>]

Init ==
  /\ fs \in InitialTrees
  /\ orig = fs
  /\ pc = "move"
  /\ idx = 1
  /\ moved_count = 0
  /\ failed_count = 0
  /\ updated_count = 0
  /\ java_files = {}
  /\ run = 0
  /\ faults = 0
  /\ copied = {}
  /\ pkg_pre = EmptyTree
  /\ pkg_seen = {}
  /\ run_pre = EmptyTree
  /\ scanned = {}
  /\ visits = EmptyTree
  /\ written = {}
  /\ io_err = {}
  /\ io_err_ever = {}

MayFault == faults < MaxFaults

(***************************************************************************)
(* migrate_to_modules.py: move_file, called by main for MIGRATIONS[idx].   *)
(***************************************************************************)
InMoveLoop == pc = "move" /\ idx <= Len(MIGRATIONS)

\* if not src.exists(): return False               -> failed_count += 1
move_file_missing ==
  /\ InMoveLoop
  /\ MIGRATIONS[idx].src \notin DOMAIN fs
  /\ failed_count' = failed_count + 1
  /\ idx' = idx + 1
  /\ UNCHANGED <<fs, pc, moved_count, updated_count, java_files, faults, copied,
                 pkg_pre, pkg_seen, orig>>
  /\ UNCHANGED importVars

\* dest.parent.mkdir(...) raises: the call is outside move_file's try and main
\* has none, so the exception ends the program.
move_file_mkdir_error ==
  /\ InMoveLoop
  /\ MIGRATIONS[idx].src \in DOMAIN fs
  /\ MayFault
  /\ faults' = faults + 1
  /\ pc' = "crashed"
  /\ UNCHANGED <<fs, idx, moved_count, failed_count, updated_count, java_files,
                 copied, pkg_pre, pkg_seen, orig>>
  /\ UNCHANGED importVars

\* A slip: shutil.move in place of shutil.copy2, the source gone afterwards.
move_file_moved ==
  /\ InMoveLoop
  /\ MIGRATIONS[idx].src \in DOMAIN fs
  /\ fs' = [p \in (DOMAIN fs \ {MIGRATIONS[idx].src}) \cup {MIGRATIONS[idx].dest}
              |-> IF p = MIGRATIONS[idx].dest
                  THEN fs[MIGRATIONS[idx].src] ELSE fs[p]]
  /\ moved_count' = moved_count + 1
  /\ copied' = copied \cup {idx}
  /\ idx' = idx + 1
  /\ UNCHANGED <<pc, failed_count, updated_count, java_files, faults, pkg_pre,
                 pkg_seen, orig>>
  /\ UNCHANGED importVars

\* shutil.copy2(src, dest) succeeds: return True   -> moved_count += 1
move_file_copied ==
  /\ InMoveLoop
  /\ MIGRATIONS[idx].src \in DOMAIN fs
  /\ fs' = Put(fs, MIGRATIONS[idx].dest, fs[MIGRATIONS[idx].src])
  /\ moved_count' = moved_count + 1
  /\ copied' = copied \cup {idx}
  /\ idx' = idx + 1
  /\ UNCHANGED <<pc, failed_count, updated_count, java_files, faults, pkg_pre,
                 pkg_seen, orig>>
  /\ UNCHANGED importVars

\* shutil.copy2 raises: caught, return False       -> failed_count += 1.
\* The destination is then missing, or created and cut short.
move_file_copy_error ==
  /\ InMoveLoop
  /\ MIGRATIONS[idx].src \in DOMAIN fs
  /\ MayFault
  /\ faults' = faults + 1
  /\ \E partial \in BOOLEAN :
        fs' = IF partial THEN Put(fs, MIGRATIONS[idx].dest, <<>>) ELSE fs
  /\ failed_count' = failed_count + 1
  /\ idx' = idx + 1
  /\ UNCHANGED <<pc, moved_count, updated_count, java_files, copied, pkg_pre,
                 pkg_seen, orig>>
  /\ UNCHANGED importVars

\* A slip: the glob taken before the copy loop.
RewriteSetBeforeCopies == GlobModules(orig)

\* java_files = list(glob("modules/**/*.java")) + list(glob("common/**/*.java")),
\* evaluated where main reaches it.
RewriteSet == GlobModules(fs)

\* main between its two loops: the summary of the copies, then the glob.
main_glob ==
  /\ pc = "move"
  /\ idx > Len(MIGRATIONS)
  /\ java_files' = RewriteSet
  /\ updated_count' = 0
  /\ pc' = "update"
  /\ UNCHANGED <<fs, faults>>
  /\ UNCHANGED relocVars
  /\ UNCHANGED importVars

(***************************************************************************)
(* update_package_declaration(java_file), for the files of java_files in   *)
(* the order glob listed them (any order).                                 *)
(***************************************************************************)
\* read_text, re.sub, write_text all succeed: return True
update_package_declaration_ok(f) ==
  /\ pc = "update"
  /\ f \in java_files
  /\ f \in DOMAIN fs
  /\ fs' = Put(fs, f, RewritePackage(fs[f], f))
  /\ updated_count' = updated_count + 1
  /\ java_files' = java_files \ {f}
  /\ pkg_pre' = Put(pkg_pre, f, fs[f])
  /\ pkg_seen' = pkg_seen \cup {f}
  /\ UNCHANGED <<pc, idx, moved_count, failed_count, faults, copied, orig>>
  /\ UNCHANGED importVars

\* read_text raises: caught, return False
update_package_declaration_read_error(f) ==
  /\ pc = "update"
  /\ f \in java_files
  /\ MayFault
  /\ faults' = faults + 1
  /\ java_files' = java_files \ {f}
  /\ pkg_seen' = pkg_seen \cup {f}
  /\ UNCHANGED <<fs, pc, idx, moved_count, failed_count, updated_count, copied,
                 pkg_pre, orig>>
  /\ UNCHANGED importVars

\* write_text raises: caught, return False.  The file is untouched when open()
\* failed and cut short when the write itself failed.
update_package_declaration_write_error(f) ==
  /\ pc = "update"
  /\ f \in java_files
  /\ f \in DOMAIN fs
  /\ MayFault
  /\ faults' = faults + 1
  /\ \E truncated \in BOOLEAN :
        fs' = IF truncated THEN Put(fs, f, <<>>) ELSE fs
  /\ java_files' = java_files \ {f}
  /\ pkg_seen' = pkg_seen \cup {f}
  /\ UNCHANGED <<pc, idx, moved_count, failed_count, updated_count, copied,
                 pkg_pre, orig>>
  /\ UNCHANGED importVars

\* main after its second loop: the final summary.
main_done ==
  /\ pc = "update"
  /\ java_files = {}
  /\ pc' = "migrated"
  /\ UNCHANGED <<fs, updated_count, java_files, faults>>
  /\ UNCHANGED relocVars
  /\ UNCHANGED importVars

(***************************************************************************)
(* update_imports.py, run by the operator after the Relocator has finished *)
(* (and again after its own summary, up to MaxRuns times).                 *)
(***************************************************************************)
\* main up to its loop: java_files = list(BASE_PATH.glob("**/*.java"))
imports_main_glob ==
  /\ pc \in {"migrated", "summary"}
  /\ run < MaxRuns
  /\ run' = run + 1
  /\ java_files' = GlobAll(fs)
  /\ scanned' = GlobAll(fs)
  /\ visits' = [p \in GlobAll(fs) |-> 0]
  /\ run_pre' = fs
  /\ written' = {}
  /\ io_err' = {}
  /\ updated_count' = 0
  /\ pc' = "imports"
  /\ UNCHANGED <<fs, faults, io_err_ever>>
  /\ UNCHANGED relocVars

\* A slip: the text as read written back.
WrittenOriginal(content, original_content) == original_content

\* file_path.write_text(content)
WrittenText(content, original_content) == content

\* A slip: no handler, the exception ends the program.
ImportsUncaughtPc == "crashed"

\* except Exception as e: print(...); return False -- main's loop goes on.
ImportsExceptPc == "imports"

\* read_text succeeds.  When the text changed, write_text is called: if it
\* succeeds the call returns True and main counts it; if it raises, the
\* exception is caught and the call returns False, the file untouched when
\* open() failed and cut short otherwise.  When the text did not change the
\* call returns False without writing.
update_imports_in_file(f) ==
  /\ pc = "imports"
  /\ f \in java_files
  /\ java_files' = java_files \ {f}
  /\ visits' = [visits EXCEPT ![f] = @ + 1]
  /\ \E content \in {RewriteImports(fs[f])} :
        \/ /\ IF Changed(content, fs[f])
              THEN /\ fs' = Put(fs, f, WrittenText(content, fs[f]))
                   /\ written' = written \cup {f}
                   /\ updated_count' = updated_count + 1
              ELSE UNCHANGED <<fs, written, updated_count>>
           /\ UNCHANGED <<pc, faults, io_err, io_err_ever>>
        \/ /\ MayFault
           /\ Changed(content, fs[f])
           /\ faults' = faults + 1
           /\ \E truncated \in BOOLEAN :
                 fs' = IF truncated THEN Put(fs, f, <<>>) ELSE fs
           /\ io_err' = io_err \cup {f}
           /\ io_err_ever' = io_err_ever \cup {f}
           /\ pc' = ImportsExceptPc
           /\ UNCHANGED <<written, updated_count>>
  /\ UNCHANGED <<run, run_pre, scanned>>
  /\ UNCHANGED relocVars

\* read_text raises: caught, return False
update_imports_in_file_read_error(f) ==
  /\ pc = "imports"
  /\ f \in java_files
  /\ MayFault
  /\ faults' = faults + 1
  /\ java_files' = java_files \ {f}
  /\ visits' = [visits EXCEPT ![f] = @ + 1]
  /\ io_err' = io_err \cup {f}
  /\ io_err_ever' = io_err_ever \cup {f}
  /\ pc' = ImportsExceptPc
  /\ UNCHANGED <<fs, updated_count, run, run_pre, scanned, written>>
  /\ UNCHANGED relocVars

\* main after its loop: the final summary.
imports_main_done ==
  /\ pc = "imports"
  /\ java_files = {}
  /\ pc' = "summary"
  /\ UNCHANGED <<fs, updated_count, java_files, faults>>
  /\ UNCHANGED relocVars
  /\ UNCHANGED importVars

Next ==
  \/ move_file_missing
  \/ move_file_mkdir_error
  \/ move_file_copied
  \/ move_file_copy_error
  \/ main_glob
  \/ \E f \in java_files : update_package_declaration_ok(f)
  \/ \E f \in java_files : update_package_declaration_read_error(f)
  \/ \E f \in java_files : update_package_declaration_write_error(f)
  \/ main_done
  \/ imports_main_glob
  \/ \E f \in java_files : update_imports_in_file(f)
  \/ \E f \in java_files : update_imports_in_file_read_error(f)
  \/ imports_main_done

Spec == Init /\ [][Next]_vars

(***************************************************************************)
(* Vocabulary of the properties.                                           *)
(***************************************************************************)
RECURSIVE LinesFrom(_, _)
LinesFrom(text, i) ==
  IF i > Len(text) THEN <<>>
  ELSE LET brk == {j \in i..Len(text) : text[j] = "\n"}
       IN  IF brk = {} THEN <<SubSeq(text, i, Len(text))>>
           ELSE LET e == CHOOSE j \in brk : \A k \in brk : j <= k
                IN  <<SubSeq(text, i, e - 1)>> \o LinesFrom(text, e + 1)

\* The lines of a text, line breaks dropped.
Lines(text) == LinesFrom(text, 1)

\* Where the declaration pattern matches in a text.
DeclStarts(text) ==
  {j \in KwStarts(text, "package") : MatchEnd(text, j, PackagePattern) > 0}

\* A line that holds a whole match of the declaration pattern.
IsDeclLine(line) == MatchEnd(line, 1, PackagePattern) > 0

DeclLines(text) == {l \in 1..Len(Lines(text)) : IsDeclLine(Lines(text)[l])}

\* The qualified class name a path spells: ".java" dropped, "/" read as ".".
Dotted(path) ==
  [k \in 1..(Len(path) - 2) |-> IF path[k] = "/" THEN "." ELSE path[k]]

\* The namespace of the directory a path lies in, by way of its class name.
DirNamespace(path) == BasePrefix \o RSplitPackage(Dotted(path))

Occurs(stmt, text) ==
  \E j \in KwStarts(text, stmt[1]) :
     /\ j + Len(stmt) - 1 <= Len(text)
     /\ SubSeq(text, j, j + Len(stmt) - 1) = stmt

Matches(text, p) ==
  \E j \in KwStarts(text, p.kw) : MatchEnd(text, j, p) > 0

\* No import, exact or wildcard, that some IMPORT_MAPPINGS entry rewrites.
NoOldImport(text) ==
  \A k \in 1..Len(ImportRules) :
     ~Hit(text, ImportRules[k], KwStarts(text, "import"))

RoleSrc == MIGRATIONS[RoleEntry].src
RoleDest == MIGRATIONS[RoleEntry].dest
RoleMapperSrc == MIGRATIONS[RoleMapperEntry].src
RoleMapperDest == MIGRATIONS[RoleMapperEntry].dest

\* Files of the current Import Rewriter run whose read and write did not fail.
Clean == scanned \ io_err

(***************************************************************************)
(* C1.  For every MIGRATIONS entry whose source exists when the Relocator  *)
(* starts, once main has finished the destination exists and its text     *)
(* equals the source's on every line but one, the rewritten declaration    *)
(* line.  Stated for the runs in which no I/O fails and for sources in     *)
(* which every declaration ends on the line it starts on.                  *)
(***************************************************************************)
WholeLineDecls(text) ==
  Cardinality(DeclStarts(text)) = Cardinality(DeclLines(text))

DiffersInAtMostOneLine(a, b) ==
  /\ Len(Lines(a)) = Len(Lines(b))
  /\ Cardinality({l \in 1..Len(Lines(a)) : Lines(a)[l] # Lines(b)[l]}) <= 1

C1_RelocatorPostcondition ==
  (pc = "migrated" /\ faults = 0) =>
     \A k \in 1..Len(MIGRATIONS) :
        (/\ MIGRATIONS[k].src \in DOMAIN orig
         /\ WholeLineDecls(orig[MIGRATIONS[k].src])) =>
           /\ MIGRATIONS[k].dest \in DOMAIN fs
           /\ DiffersInAtMostOneLine(orig[MIGRATIONS[k].src],
                                     fs[MIGRATIONS[k].dest])

(***************************************************************************)
(* C2.  No failure is fatal to the Relocator: the run never aborts, and    *)
(* once the copy loop is over every entry has been counted exactly once,   *)
(* as moved or as failed.                                                  *)
(***************************************************************************)
C2_NoFailureIsFatal ==
  /\ (run = 0 => pc # "crashed")
  /\ pc \in {"update", "migrated"} =>
        moved_count + failed_count = Len(MIGRATIONS)

(***************************************************************************)
(* C3.  After update_package_declaration has rewritten a file that had a   *)
(* matching declaration, every declaration the pattern finds in it reads   *)
(* exactly "package <base namespace>.<directories of the file, dotted>;",  *)
(* whatever it declared before.  (Files whose read and write succeeded.)   *)
(***************************************************************************)
C3_PathDerivedNamespace ==
  pc \in {"update", "migrated"} =>
     \A f \in DOMAIN pkg_pre :
        DeclStarts(pkg_pre[f]) # {} =>
           /\ DeclStarts(fs[f]) # {}
           /\ \A j \in DeclStarts(fs[f]) :
                 SubSeq(fs[f], j, MatchEnd(fs[f], j, PackagePattern))
                    = <<"package", " ">> \o DirNamespace(f) \o <<";">>

C3_Witness ==
  /\ pc = "migrated"
  /\ faults = 0
  /\ RoleDest \in DOMAIN pkg_pre
  /\ pkg_pre[RoleDest] = LPackage \o NL \o LImportRole \o NL
  /\ Lines(fs[RoleDest])[1] =
        <<"package", " ", "com", ".", "demo", ".", "auth", ".",
          "modules", ".", "role", ".", "entity", ";">>

(***************************************************************************)
(* C4.  The declaration rewrite alters at most one line: in a file with    *)
(* lines that match the pattern only the first of them is replaced and     *)
(* every other line, later matching lines included, stays as it was; a     *)
(* file in which the pattern matches nowhere is unchanged.                 *)
(***************************************************************************)
C4_OnlyFirstLineRewritten ==
  pc \in {"update", "migrated"} =>
     \A f \in DOMAIN pkg_pre :
        /\ DeclLines(pkg_pre[f]) # {} =>
              /\ Len(Lines(fs[f])) = Len(Lines(pkg_pre[f]))
              /\ \A l \in 1..Len(Lines(pkg_pre[f])) :
                    (\E l0 \in DeclLines(pkg_pre[f]) : l0 < l) =>
                       Lines(fs[f])[l] = Lines(pkg_pre[f])[l]
        /\ DeclStarts(pkg_pre[f]) = {} => fs[f] = pkg_pre[f]

(***************************************************************************)
(* C5.  After a run of the Import Rewriter, for every IMPORT_MAPPINGS      *)
(* entry and every scanned file: no import of the old name and no wildcard *)
(* import of the old name's package is left, every file that imported the *)
(* old name imports the new one, and every file that had the wildcard      *)
(* import of the old package has the wildcard import of the new name's     *)
(* package.  (Files whose read and write succeeded.)                       *)
(***************************************************************************)
C5_ImportsRewritten ==
  pc = "summary" =>
     \A f \in Clean :
        \A k \in 1..Len(ImportRules) :
           /\ ~Matches(fs[f], ImportRules[k].old_pattern)
           /\ ~Matches(fs[f], ImportRules[k].old_wildcard)
           /\ Matches(run_pre[f], ImportRules[k].old_pattern) =>
                 Occurs(ImportRules[k].new_statement, fs[f])
           /\ Matches(run_pre[f], ImportRules[k].old_wildcard) =>
                 Occurs(ImportRules[k].new_wildcard, fs[f])

(***************************************************************************)
(* C6.  Idempotence: a run of the Import Rewriter that directly follows    *)
(* another changes no file and writes none.  (Files whose read and write   *)
(* failed in no run.)  No statement or wildcard a rule writes is matched   *)
(* by a pattern of any rule.                                               *)
(***************************************************************************)
NoRuleFeedsAnother ==
  \A k \in 1..Len(ImportRules) : \A m \in 1..Len(ImportRules) :
     /\ MatchEnd(ImportRules[k].new_statement, 1, ImportRules[m].old_pattern) = 0
     /\ MatchEnd(ImportRules[k].new_wildcard, 1, ImportRules[m].old_wildcard) = 0

C6_Idempotent ==
  run >= 2 =>
     /\ NoRuleFeedsAnother
     /\ \A f \in scanned \ io_err_ever :
           f \notin written /\ fs[f] = run_pre[f]

C6_Witness ==
  /\ pc = "summary"
  /\ run = 2
  /\ faults = 0
  /\ RoleSrc \in DOMAIN orig
  /\ Matches(orig[RoleSrc], ExactPattern(BasePrefix \o <<"entity", ".", "Role">>))
  /\ fs[RoleSrc] # orig[RoleSrc]
  /\ written = {}
  /\ updated_count = 0

(***************************************************************************)
(* C7.  The Import Rewriter writes a file exactly when the substitutions   *)
(* changed its text: updated_count is the number of files whose text       *)
(* differs from before the run, and a file without a matching import is    *)
(* neither written nor changed.  (The count: files whose read and write    *)
(* succeeded.)                                                             *)
(***************************************************************************)
C7_WriteIffChanged ==
  pc \in {"imports", "summary"} =>
     /\ written \subseteq Clean
     /\ \A f \in Clean : f \in written <=> fs[f] # run_pre[f]
     /\ updated_count = Cardinality({f \in Clean : fs[f] # run_pre[f]})
     /\ pc = "summary" =>
           \A f \in scanned :
              NoOldImport(run_pre[f]) => f \notin written /\ fs[f] = run_pre[f]

C7_Witness ==
  /\ pc = "summary"
  /\ run = 1
  /\ updated_count = 2
  /\ \E f \in Clean : NoOldImport(run_pre[f]) /\ f \notin written
  /\ \E f \in written : fs[f] # run_pre[f]

(***************************************************************************)
(* C8.  Fault isolation in the Import Rewriter: a failed read or write is  *)
(* caught for that file, which is not counted; every enumerated file is    *)
(* processed exactly once, the others with every substitution applied;     *)
(* the run does not abort and can always take its next step up to the      *)
(* summary.                                                                *)
(***************************************************************************)
C8_FaultIsolation ==
  /\ run >= 1 => pc # "crashed"
  /\ pc = "imports" =>
        /\ \A f \in scanned : visits[f] = IF f \in java_files THEN 0 ELSE 1
        /\ java_files = {} => ENABLED imports_main_done
  /\ pc = "summary" =>
        /\ \A f \in scanned : visits[f] = 1
        /\ written \cap io_err = {}
        /\ updated_count = Cardinality(written)
        /\ \A f \in Clean : NoOldImport(fs[f])

C8_Witness ==
  /\ pc = "summary"
  /\ run = 1
  /\ io_err # {}
  /\ written # {}
  /\ \E f \in io_err : ~NoOldImport(fs[f])

(***************************************************************************)
(* C9.  Phase ordering in the Relocator: no declaration is rewritten       *)
(* before the copy of every entry has been attempted; the rewrite set is   *)
(* enumerated after the last copy, so it holds every file copied in this   *)
(* run, and when main finishes each of them has been handed to             *)
(* update_package_declaration, which read the text this run copied.        *)
(***************************************************************************)
C9_PhaseOrdering ==
  /\ pc = "move" => pkg_seen = {} /\ java_files = {}
  /\ pc = "update" =>
        /\ idx = Len(MIGRATIONS) + 1
        /\ \A k \in copied : MIGRATIONS[k].dest \in java_files \cup pkg_seen
  /\ pc = "migrated" =>
        \A k \in copied :
           /\ Under(MIGRATIONS[k].dest, "modules") \/ Under(MIGRATIONS[k].dest, "common")
           /\ MIGRATIONS[k].dest \in pkg_seen
           /\ MIGRATIONS[k].dest \in DOMAIN pkg_pre =>
                 pkg_pre[MIGRATIONS[k].dest] = orig[MIGRATIONS[k].src]

C9_Witness ==
  /\ pc = "migrated"
  /\ copied = {RoleEntry, RoleMapperEntry}
  /\ {RoleDest, RoleMapperDest} \subseteq DOMAIN pkg_pre
  /\ fs[RoleDest] # orig[RoleSrc]

(***************************************************************************)
(* C10.  The two tables agree: every MIGRATIONS entry has the              *)
(* IMPORT_MAPPINGS entry from its dotted source path to its dotted         *)
(* destination path, so that after the Relocator and the Import Rewriter   *)
(* no file still imports a relocated class by its old name.                *)
(***************************************************************************)
HasImportMapping(k) ==
  \E m \in 1..Len(IMPORT_MAPPINGS) :
     /\ IMPORT_MAPPINGS[m].old = BasePrefix \o Dotted(MIGRATIONS[k].src)
     /\ IMPORT_MAPPINGS[m].new = BasePrefix \o Dotted(MIGRATIONS[k].dest)

C10_TablesConsistent ==
  pc = "summary" =>
     \A k \in copied :
        /\ \A f \in Clean :
              ~Matches(fs[f], ExactPattern(BasePrefix \o Dotted(MIGRATIONS[k].src)))
        /\ HasImportMapping(k)

-----------------------------------------------------------------------------
\* Order of the entries of IMPORT_MAPPINGS.

RECURSIVE Reversed(_)
\* The sequence s, last element first.
Reversed(s) ==
  IF s = <<>> THEN <<>> ELSE Append(Reversed(Tail(s)), Head(s))

\* The rules of all entries, last entry of the table first.
ReversedRules == Reversed(ImportRules)

\* The loop of update_imports_in_file run over the rules in the given order.
RewriteImportsIn(rules, content) ==
  ApplyMappings(content, rules, 1, KwStarts(content, "import"))

\* The files are taken from the glob in any order: whatever the order, a
\* file whose read and write succeeded ends a run holding the rewriting of
\* the text it held when the run began, a function of that text alone.
FileOrderIndependent ==
  pc = "summary" => \A f \in Clean : fs[f] = RewriteImports(run_pre[f])

\* C11: the rewritten text of a file does not depend on the order the
\* entries of IMPORT_MAPPINGS are applied in: a file whose read and write
\* succeeded ends a run holding what the loop gives when it takes the
\* entries last to first, wildcard imports of a package whose classes went
\* to different modules included.
C11_OrderIndependent ==
  pc = "summary" =>
     \A f \in Clean : fs[f] = RewriteImportsIn(ReversedRules, run_pre[f])

-----------------------------------------------------------------------------
\* What the Relocator leaves alone.

\* A path inside one of the two subtrees the Relocator writes to.
InRoots(path) == Under(path, "modules") \/ Under(path, "common")

\* No two entries of MIGRATIONS share a destination.
DestinationsDistinct ==
  \A j, k \in 1..Len(MIGRATIONS) :
     j # k => MIGRATIONS[j].dest # MIGRATIONS[k].dest

\* No destination is the source of an entry, and all lie inside the subtrees.
DestinationsApart ==
  \A j \in 1..Len(MIGRATIONS) :
     /\ InRoots(MIGRATIONS[j].dest)
     /\ \A k \in 1..Len(MIGRATIONS) : MIGRATIONS[j].dest # MIGRATIONS[k].src

=============================================================================
